---- MODULE Spec2Model ----
(***************************************************************************)
(* Model of src/app.py: the "Critical Spares Evaluation" Streamlit script. *)
(* One behaviour of Spec is one run of the script: login, password-reset   *)
(* check, input widgets, the MTBR guard, the lambda calculation, the       *)
(* Poisson sizing loop and the summary block.                              *)
(*                                                                         *)
(* Numbers.  Probabilities are fixed-point integers in units of 1/Scale    *)
(* (1e-9); a table entry rounded to 4 decimals is an integer in units of   *)
(* 1e-4.  lambda is kept in half units (lam = 2 * lambda), which is exact  *)
(* for the inputs enumerated below.  None (-1) stands for "not assigned".  *)
(* Truncation to 1e-9 keeps the row at which the loop stops equal to the    *)
(* one of exact arithmetic for lambda <= 15 and for lambda >= 18.5; in     *)
(* between, the stop for a threshold of 0.99 can come a few rows later.    *)
(***************************************************************************)
EXTENDS Integers, Sequences, FiniteSets

VARIABLES pc, auth_status, password_reset, messages,
          A, N, M, T, MTBR, probability_threshold, spare_part_cost,
          lam, max_iterations, cumulative_probability, x, p,
          probability_table, min_spares, total_cost, summary

vars == <<pc, auth_status, password_reset, messages,
          A, N, M, T, MTBR, probability_threshold, spare_part_cost,
          lam, max_iterations, cumulative_probability, x, p,
          probability_table, min_spares, total_cost, summary>>

None == 0 - 1

\* ---------------------------------------------------------------- bounds
MaxA == 2
MaxN == 2
MaxT == 5
SmallCap == 5
MaxLam == 24

\* ------------------------------------------------------- numeric domain
Scale == 10^9
\* the negligibility floor 1e-8 of line 88, in units of 1/Scale
NegligibleFloor == Scale \div 10^8
\* max_iterations = 1000 of line 78
DefaultMaxIterations == 1000

\* widget domains (lines 40-44, 49-50), restricted to a few values
AValues == 0..MaxA
NValues == 1..MaxN
MValues == {0, 250}
TValues == 0..MaxT
MTBRValues == {0, 250, 500}
ThresholdValues == {0, 5 * 10^8, 9 * 10^8, 99 * 10^7}
CostValues == {1, 51}

\* inputs of the sizing loop taken on its own (lambda in half units)
SizerLamValues == (0..MaxLam) \cup {40, 200}
SizerThresholdValues == ThresholdValues \cup {Scale}
SizerCapValues == {SmallCap, DefaultMaxIterations}

\* floor(e^(-h/2) * Scale) for h = 0..41; it is 0 from h = 42 on
ExpNegTable ==
  << 1000000000, 606530659, 367879441, 223130160, 135335283, 82084998,
     49787068, 30197383, 18315638, 11108996, 6737946, 4086771, 2478752,
     1503439, 911881, 553084, 335462, 203468, 123409, 74851, 45399, 27536,
     16701, 10130, 6144, 3726, 2260, 1370, 831, 504, 305, 185, 112, 68, 41,
     25, 15, 9, 5, 3, 2, 1 >>

ExpNeg(h) == IF h < Len(ExpNegTable) THEN ExpNegTable[h + 1] ELSE 0

\* floor(a * n / d) without an intermediate product above a * n / d + n * d
\* (v ranges over the one value of a, so that a is evaluated once)
MulDiv(a, n, d) ==
  CHOOSE r \in {(v \div d) * n + ((v % d) * n) \div d : v \in {a}} : TRUE

\* poisson.pmf(k, lambda) = e^(-lambda) * lambda^k / k!, lambda = h / 2
RECURSIVE poisson_probability(_, _)
poisson_probability(k, h) ==
  IF k = 0 THEN ExpNeg(h)
  ELSE MulDiv(poisson_probability(k - 1, h), h, 2 * k)

\* the Poisson CDF: sum of the PMF over 0..k
RECURSIVE PoissonCDF(_, _)
PoissonCDF(k, h) ==
  IF k = 0 THEN poisson_probability(0, h)
  ELSE PoissonCDF(k - 1, h) + poisson_probability(k, h)

\* round(v, 4): v in units of 1/Scale, result in units of 1e-4, ties to even
Round4(v) ==
  LET u == Scale \div 10^4
      q == v \div u
      r == v % u
  IN  IF 2 * r > u THEN q + 1
      ELSE IF 2 * r < u THEN q
      ELSE IF q % 2 = 0 THEN q ELSE q + 1

\* ------------------------------------------------------------ the script
\* a login that treats the pending state (None) as authenticated
TruthyPending(a) == a # "False"

\* if auth_status: (Python truthiness of True / False / None)
Truthy(a) == a = "True"

\* a guard that tests the sign instead of zero
MTBRIsNegative(m) == m < 0

\* if MTBR == 0:
MTBRIsZero(m) == m = 0

\* a rate that adds the unit count instead of multiplying by it
LambdaAdditive(a, n, m, t, mtbr) == (2 * (a + n) * m * t) \div mtbr

\* lambda = (A * N * M * T) / MTBR, in half units
Lambda(a, n, m, t, mtbr) == (2 * a * n * m * t) \div mtbr

\* a loop condition that allows one more pass
LoopGuardOneMore(i, cap) == i <= cap + 1

\* while x <= max_iterations:
LoopGuard(i, cap) == i <= cap

\* an assignment in place of the accumulation
AccumulateAssign(cum, q) == q

\* cumulative_probability += p
Accumulate(cum, q) == cum + q

\* a break that needs both conditions
StopConditionBoth(cum, q, thr) == cum >= thr /\ q < NegligibleFloor

\* if cumulative_probability >= probability_threshold or p < 1e-8: break
StopCondition(cum, q, thr) == cum >= thr \/ q < NegligibleFloor

\* the row appended by lines 83-87
Row(i, q, cum) ==
  [spares |-> i, probability |-> Round4(q), cumulative |-> Round4(cum)]

\* min_spares = x
MinSpares(i) == i

\* total_cost = min_spares * spare_part_cost
TotalCost(ms, cost) == ms * cost

Init ==
  /\ pc = "login"
  /\ auth_status = "None"
  /\ password_reset = FALSE
  /\ messages = {}
  /\ A = None /\ N = None /\ M = None /\ T = None /\ MTBR = None
  /\ probability_threshold = None
  /\ spare_part_cost = None
  /\ lam = None
  /\ max_iterations = None
  /\ cumulative_probability = None
  /\ x = None
  /\ p = None
  /\ probability_table = << >>
  /\ min_spares = None
  /\ total_cost = None
  /\ summary = {}

calcVars == <<A, N, M, T, MTBR, probability_threshold, spare_part_cost,
              lam, max_iterations, cumulative_probability, x, p,
              probability_table, min_spares, total_cost, summary>>

\* line 14: name, auth_status, username = authenticator.login(...)
\* the password_reset flag is the one stored with the user's credentials
Login ==
  /\ pc = "login"
  /\ \E a \in {"True", "False", "None"}, r \in BOOLEAN :
       /\ auth_status' = a
       /\ password_reset' = r
  /\ pc' = "auth"
  /\ UNCHANGED <<messages, calcVars>>

\* line 17: if auth_status:
Authenticated ==
  /\ pc = "auth"
  /\ Truthy(auth_status)
  /\ pc' = "reset_check"
  /\ UNCHANGED <<auth_status, password_reset, messages, calcVars>>

\* lines 162-163: elif auth_status == False
LoginFailed ==
  /\ pc = "auth"
  /\ ~Truthy(auth_status)
  /\ auth_status = "False"
  /\ messages' = messages \cup {"Username/password is incorrect"}
  /\ pc' = "done"
  /\ UNCHANGED <<auth_status, password_reset, calcVars>>

\* lines 165-166: elif auth_status == None
LoginPending ==
  /\ pc = "auth"
  /\ ~Truthy(auth_status)
  /\ auth_status = "None"
  /\ messages' = messages \cup {"Please enter your username and password"}
  /\ pc' = "done"
  /\ UNCHANGED <<auth_status, password_reset, calcVars>>

\* line 19 false: no reset required
ResetNotRequired ==
  /\ pc = "reset_check"
  /\ ~password_reset
  /\ pc' = "inputs"
  /\ UNCHANGED <<auth_status, password_reset, messages, calcVars>>

\* lines 19-24 with the button pressed: reset_password, st.stop()
\* (reset_password is the authenticator's; its effect on the flag is open)
ResetButtonPressed ==
  /\ pc = "reset_check"
  /\ password_reset
  /\ \E f \in BOOLEAN : password_reset' = f
  /\ messages' = messages \cup {"You are required to reset your password.",
                                "Password updated. Please log in again."}
  /\ pc' = "done"
  /\ UNCHANGED <<auth_status, calcVars>>

\* lines 19-21 with the button not pressed: the warning only, then line 26 on
ResetButtonNotPressed ==
  /\ pc = "reset_check"
  /\ password_reset
  /\ messages' = messages \cup {"You are required to reset your password."}
  /\ pc' = "inputs"
  /\ UNCHANGED <<auth_status, password_reset, calcVars>>

\* lines 40-44: the five number_input widgets
ReadInputs ==
  /\ pc = "inputs"
  /\ \E a \in AValues, n \in NValues, m \in MValues, t \in TValues,
        mtbr \in MTBRValues :
       /\ A' = a /\ N' = n /\ M' = m /\ T' = t /\ MTBR' = mtbr
  /\ pc' = "guard"
  /\ UNCHANGED <<auth_status, password_reset, messages,
                 probability_threshold, spare_part_cost, lam, max_iterations,
                 cumulative_probability, x, p, probability_table, min_spares,
                 total_cost, summary>>

\* lines 46-47: if MTBR == 0: st.error(...)
MTBRZero ==
  /\ pc = "guard"
  /\ MTBRIsZero(MTBR)
  /\ messages' = messages \cup {"MTBR cannot be zero."}
  /\ pc' = "done"
  /\ UNCHANGED <<auth_status, password_reset, calcVars>>

\* lines 48-50: else: the threshold slider and the cost input
ReadThreshold ==
  /\ pc = "guard"
  /\ ~MTBRIsZero(MTBR)
  /\ \E thr \in ThresholdValues, cost \in CostValues :
       /\ probability_threshold' = thr
       /\ spare_part_cost' = cost
  /\ pc' = "lambda"
  /\ UNCHANGED <<auth_status, password_reset, messages, A, N, M, T, MTBR,
                 lam, max_iterations, cumulative_probability, x, p,
                 probability_table, min_spares, total_cost, summary>>

\* lines 53 and 75-78: lambda, then the loop's initial values
\* (a zero MTBR here is Python's ZeroDivisionError: the run ends)
ComputeLambda ==
  /\ pc = "lambda"
  /\ IF MTBR = 0
       THEN /\ messages' = messages \cup {"ZeroDivisionError"}
            /\ pc' = "done"
            /\ UNCHANGED <<lam, max_iterations, cumulative_probability, x,
                           probability_table>>
       ELSE /\ lam' = Lambda(A, N, M, T, MTBR)
            /\ cumulative_probability' = 0
            /\ x' = 0
            /\ probability_table' = << >>
            /\ max_iterations' = DefaultMaxIterations
            /\ pc' = "loop"
            /\ UNCHANGED messages
  /\ UNCHANGED <<auth_status, password_reset, A, N, M, T, MTBR,
                 probability_threshold, spare_part_cost, p, min_spares,
                 total_cost, summary>>

\* lines 80-90: one evaluation of the while condition and, when it holds,
\* one pass through the body
WhileLoop ==
  /\ pc = "loop"
  /\ IF LoopGuard(x, max_iterations)
       THEN LET q == poisson_probability(x, lam)
                cum == Accumulate(cumulative_probability, q)
            IN  /\ p' = q
                /\ cumulative_probability' = cum
                /\ probability_table' = Append(probability_table, Row(x, q, cum))
                /\ IF StopCondition(cum, q, probability_threshold)
                     THEN /\ pc' = "result"
                          /\ x' = x
                     ELSE /\ pc' = "loop"
                          /\ x' = x + 1
       ELSE /\ pc' = "result"
            /\ UNCHANGED <<p, cumulative_probability, probability_table, x>>
  /\ UNCHANGED <<auth_status, password_reset, messages, A, N, M, T, MTBR,
                 probability_threshold, spare_part_cost, lam, max_iterations,
                 min_spares, total_cost, summary>>

\* lines 92-101: min_spares, total_cost and the summary block
Result ==
  /\ pc = "result"
  /\ min_spares' = MinSpares(x)
  /\ total_cost' = TotalCost(MinSpares(x), spare_part_cost)
  /\ summary' = {[mark |-> "success",
                  certainty |-> probability_threshold,
                  min_spares |-> MinSpares(x),
                  total_cost |-> TotalCost(MinSpares(x), spare_part_cost)]}
  /\ pc' = "done"
  /\ UNCHANGED <<auth_status, password_reset, messages, A, N, M, T, MTBR,
                 probability_threshold, spare_part_cost, lam, max_iterations,
                 cumulative_probability, x, p, probability_table>>

Next ==
  \/ Login
  \/ Authenticated
  \/ LoginFailed
  \/ LoginPending
  \/ ResetNotRequired
  \/ ResetButtonPressed
  \/ ResetButtonNotPressed
  \/ ReadInputs
  \/ MTBRZero
  \/ ReadThreshold
  \/ ComputeLambda
  \/ WhileLoop
  \/ Result

Spec == Init /\ [][Next]_vars

\* ------------------------------------------------- the sizing loop alone
\* lines 75-93 as a function of lambda, the threshold, the unit cost and
\* the iteration cap, each drawn from a bounded set
InitSizer ==
  /\ pc = "loop"
  /\ auth_status = "True"
  /\ password_reset = FALSE
  /\ messages = {}
  /\ A = None /\ N = None /\ M = None /\ T = None /\ MTBR = None
  /\ probability_threshold \in SizerThresholdValues
  /\ spare_part_cost \in CostValues
  /\ lam \in SizerLamValues
  /\ max_iterations \in SizerCapValues
  /\ cumulative_probability = 0
  /\ x = 0
  /\ p = None
  /\ probability_table = << >>
  /\ min_spares = None
  /\ total_cost = None
  /\ summary = {}

NextSizer ==
  \/ WhileLoop
  \/ Result

SpecSizer == InitSizer /\ [][NextSizer]_vars

FairSpecSizer == SpecSizer /\ WF_vars(NextSizer)

\* ---------------------------------------------------------------- claims
NothingComputed ==
  /\ lam = None
  /\ max_iterations = None
  /\ cumulative_probability = None
  /\ x = None
  /\ p = None
  /\ probability_table = << >>
  /\ min_spares = None
  /\ total_cost = None
  /\ summary = {}

LastRow == probability_table[Len(probability_table)]

\* the loop ran out of passes: neither stop condition held at the last row
Exhausted ==
  /\ pc = "done"
  /\ summary # {}
  /\ ~(cumulative_probability >= probability_threshold)
  /\ ~(p < NegligibleFloor)

\* C1: the min_spares of a finished evaluation is the smallest k >= 0 whose
\* Poisson CDF(k; lambda) reaches the probability threshold.
C1_MinSparesIsSmallestK ==
  (pc = "done" /\ min_spares # None) =>
     /\ PoissonCDF(min_spares, lam) >= probability_threshold
     /\ \A k \in 0..(min_spares - 1) :
          PoissonCDF(k, lam) < probability_threshold

\* C2: once the MTBR guard has seen MTBR = 0 the run has ended with the
\* error message and nothing computed: no threshold read, no lambda, no
\* loop variables, no table, no min_spares, no total_cost, no summary.
C2_ZeroMTBRComputesNothing ==
  (MTBR = 0 /\ pc # "guard") =>
     /\ pc = "done"
     /\ "MTBR cannot be zero." \in messages
     /\ probability_threshold = None
     /\ spare_part_cost = None
     /\ NothingComputed

C2_Witness ==
  /\ pc = "done"
  /\ MTBR = 0
  /\ A > 0 /\ M > 0 /\ T > 0
  /\ "MTBR cannot be zero." \in messages

C5_LoopBoundedAndTerminates ==
  /\ [](Len(probability_table) <= max_iterations + 1)
  /\ <>(pc = "done")

C5_Witness ==
  /\ pc = "done"
  /\ probability_threshold = Scale
  /\ max_iterations = SmallCap
  /\ Len(probability_table) = max_iterations + 1

\* C6: in the table, the rounded probability and cumulative probability of
\* every row lie in [0, 1] and the cumulative probability never decreases
\* from a row to the next.
C6_CumulativeMonotoneInUnit ==
  \A i \in 1..Len(probability_table) :
     /\ probability_table[i].probability \in 0..(10^4)
     /\ probability_table[i].cumulative \in 0..(10^4)
     /\ (i > 1) =>
          probability_table[i - 1].cumulative <= probability_table[i].cumulative

C6_Witness ==
  /\ pc = "done"
  /\ Len(probability_table) >= 4
  /\ probability_table[1].cumulative < probability_table[2].cumulative
  /\ LastRow.cumulative >= 9900

\* C7: with MTBR > 0 and A = 0 or M = 0 or T = 0 the derived lambda is 0,
\* and a finished evaluation with lambda = 0 has the single row
\* (0, 1.0, 1.0) and min_spares = 0.
C7_ZeroLambdaSingleRow ==
  /\ (lam # None /\ MTBR > 0 /\ (A = 0 \/ M = 0 \/ T = 0)) => lam = 0
  /\ (pc = "done" /\ lam = 0) =>
        /\ probability_table =
             << [spares |-> 0, probability |-> 10^4, cumulative |-> 10^4] >>
        /\ min_spares = 0

C7_Witness ==
  /\ pc = "done"
  /\ A = 0 /\ M > 0 /\ T > 0 /\ MTBR > 0
  /\ probability_threshold = 99 * 10^7
  /\ lam = 0
  /\ min_spares = 0

\* C8: while auth_status is not the authenticated state, no input is read
\* and nothing is computed, and the only message shown is the one of that
\* state.
C8_CoreOnlyWhenAuthenticated ==
  (auth_status # "True") =>
     /\ pc \in {"login", "auth", "done"}
     /\ A = None /\ N = None /\ M = None /\ T = None /\ MTBR = None
     /\ probability_threshold = None
     /\ spare_part_cost = None
     /\ NothingComputed
     /\ (auth_status = "False") =>
          messages \subseteq {"Username/password is incorrect"}
     /\ (auth_status = "None") =>
          messages \subseteq {"Please enter your username and password"}

C8_Witness ==
  /\ pc = "done"
  /\ auth_status = "False"
  /\ messages = {"Username/password is incorrect"}

\* C9: row i of the table has 'Number of Spares' = i (counting from 0), and
\* every row but the last met neither stop condition: its unrounded
\* cumulative probability is below the threshold and its unrounded
\* probability is at least 1e-8.
C9_ContiguousRowsStopAtFirst ==
  \A i \in 1..Len(probability_table) :
     /\ probability_table[i].spares = i - 1
     /\ (i < Len(probability_table)) =>
          /\ PoissonCDF(i - 1, lam) < probability_threshold
          /\ poisson_probability(i - 1, lam) >= NegligibleFloor

C9_Witness ==
  /\ pc = "done"
  /\ Len(probability_table) >= 3
  /\ cumulative_probability >= probability_threshold
  /\ LastRow.spares = Len(probability_table) - 1

\* C10: while the authenticated user's password_reset flag is set, lambda,
\* the probability table and the sparing result are not computed.
C10_ResetBlocksCalculator ==
  (auth_status = "True" /\ password_reset) =>
     /\ lam = None
     /\ probability_table = << >>
     /\ min_spares = None
     /\ summary = {}

====
